---- MODULE Spec2Model ----
(***************************************************************************)
(* labcode-sim lab server: the Protocol Graph Builder                      *)
(* (create_process_and_operation_and_edge, connection_to_operation,        *)
(* Process.operation_mapping), the Topological Scheduler (create_plan)     *)
(* and the Execution Driver (run_experiment, Operation.run) of             *)
(* src/lab_server/lab_server.py.                                           *)
(***************************************************************************)
EXTENDS Integers, Sequences, FiniteSets, TLC

(***************************************************************************)
(* Bounds of the model.                                                    *)
(***************************************************************************)
MaxProcs == 2       \* declared processes of a protocol
MaxConns == 2       \* connections of a protocol
MaxEdges == 3       \* length of an edge list handed directly to create_plan
MaxFaults == 1      \* collaborator calls that go wrong during one request
MaxFaultSize == 2   \* processes plus connections, when collaborator calls go wrong

VARIABLES
    protocol,        \* the parsed protocol yaml: [operations, connections]
    pc,              \* position of run_experiment
    run_id,          \* the id the log server gave the Run, 0 before that
    process_list,    \* the Process objects
    operation_list,  \* the Operation objects
    edge_list,       \* the edges, by operation name
    plan,            \* the order returned by create_plan
    idx,             \* position of the `for operation_name in plan` loop
    calls,           \* the collaborator calls that were answered, in order
    faults,          \* the collaborator calls that went wrong, in order
    fault_budget,    \* how many collaborator calls may go wrong in all
    response         \* what the caller of run_experiment receives

vars == <<protocol, pc, run_id, process_list, operation_list, edge_list, plan,
          idx, calls, faults, fault_budget, response>>

(***************************************************************************)
(* Generic helpers.                                                        *)
(***************************************************************************)
Range(s) == {s[i] : i \in DOMAIN s}

RECURSIVE Reverse(_)
Reverse(s) == IF s = <<>> THEN <<>> ELSE Append(Reverse(Tail(s)), Head(s))

\* the positions of x in the sequence s
Positions(s, x) == {i \in DOMAIN s : s[i] = x}

\* all sequences over S of length at most n
RECURSIVE SeqsUpTo(_, _)
SeqsUpTo(S, n) ==
    IF n = 0 THEN {<<>>}
    ELSE LET shorter == SeqsUpTo(S, n - 1)
         IN shorter \cup {Append(s, x) : s \in {t \in shorter : Len(t) = n - 1}, x \in S}

(***************************************************************************)
(* create_plan: topological sort of the edge list by depth-first search.   *)
(* edge_list and node_list are made with list(set(...)), whose iteration   *)
(* order is unspecified: every for loop over them takes its next element   *)
(* among those not yet iterated.  An element that is already seen is       *)
(* skipped wherever it comes in that order, so the loops choose among the  *)
(* unseen elements only.                                                   *)
(***************************************************************************)
\* line 354: the set of (from, to) tuples
EdgeTuples(connections) ==
    {<<connections[i].from, connections[i].to>> : i \in DOMAIN connections}

\* line 355: the set of the endpoints
NodeSet(edges) == {e[1] : e \in edges} \cup {e[2] : e \in edges}

\* lines 356-358: node -> its children
Graph(edges) ==
    [n \in NodeSet(edges) |-> {e[2] : e \in {d \in edges : d[1] = n}}]

RECURSIVE dfs(_, _, _), dfs_loop(_, _, _)

\* lines 363-369; st = [seen, ret_list], seen the set of the nodes whose
\* flag is True; the set of the states the call can end in
dfs(graph, node, st) ==
    LET marked == [st EXCEPT !.seen = @ \cup {node}]
    IN {[inner EXCEPT !.ret_list = Append(@, node)] :
            inner \in dfs_loop(graph, graph[node], marked)}

\* the loops of lines 365-368 and of line 371 over the nodes `todo`
dfs_loop(graph, todo, st) ==
    LET unseen == {c \in todo : c \notin st.seen}
    IN IF unseen = {} THEN {st}
       ELSE UNION {UNION {dfs_loop(graph, todo \ {c}, after) :
                              after \in dfs(graph, c, st)} : c \in unseen}

\* create_plan without the ret_list.reverse() of line 372
create_plan_unreversed(connections) ==
    LET edges == EdgeTuples(connections)
        graph == Graph(edges)
        st0   == [seen |-> {}, ret_list |-> <<>>]
    IN {final.ret_list : final \in dfs_loop(graph, DOMAIN graph, st0)}

\* lines 346-373: the orders create_plan can return for the edge list
create_plan(connections) ==
    LET edges == EdgeTuples(connections)
        graph == Graph(edges)
        st0   == [seen |-> {}, ret_list |-> <<>>]
    IN {Reverse(final.ret_list) : final \in dfs_loop(graph, DOMAIN graph, st0)}

(***************************************************************************)
(* The inputs of a request: the protocol and the operator pool.            *)
(***************************************************************************)
\* the ids of the declared processes, by position in protocol["operations"]
ProcNames == <<"p1", "p2", "p3">>

\* capability types: two operators of the pool have t1, one has t2, none t3
Types == {"t1", "t2", "t3"}

Ports == {"x"}

\* the (source, target) process pairs a connection can join
Ends == {<<"input", "p1">>, <<"p1", "output">>, <<"p1", "p2">>, <<"p2", "p1">>}

\* the operator pool handed to the graph builder
machines ==
    << [id |-> "m1", type |-> "t1"],
       [id |-> "m2", type |-> "t1"],
       [id |-> "m3", type |-> "t2"] >>

\* a connection as the protocol yaml writes it
ConnectionsInProtocol ==
    {[input |-> <<e[1], a>>, output |-> <<e[2], b>>, is_data |-> d] :
        e \in Ends, a \in Ports, b \in Ports, d \in BOOLEAN}

OperationsInProtocol(n) ==
    {[i \in 1..n |-> [id |-> ProcNames[i], type |-> ty[i]]] : ty \in [1..n -> Types]}

Protocols(max_procs, max_conns) ==
    {[operations |-> ops, connections |-> conns] :
        ops \in UNION {OperationsInProtocol(n) : n \in 0..max_procs},
        conns \in SeqsUpTo(ConnectionsInProtocol, max_conns)}

(***************************************************************************)
(* Storage paths and objects.                                              *)
(***************************************************************************)
NoPath == [run |-> 0, kind |-> "", id |-> 0, file |-> ""]

\* f"{run_storage_address}{kind}/{id}/" with run_storage_address = runs/{run}/
StoragePath(run, kind, id) == [run |-> run, kind |-> kind, id |-> id, file |-> ""]

\* Process.__init__ ; db_id 0 stands for the attribute not being set yet
Process(run, type, id_in_protocol) ==
    [run_id |-> run, type |-> type, id_in_protocol |-> id_in_protocol,
     storage_address |-> NoPath, db_id |-> 0]

\* Operation.__init__
Operation(process_db_id, process_name, name, is_transport, is_data) ==
    [process_db_id |-> process_db_id, process_name |-> process_name,
     name |-> name, started_at |-> "None", finished_at |-> "None",
     status |-> "not started", storage_address |-> NoPath,
     is_transport |-> is_transport, is_data |-> is_data, db_id |-> 0]

(***************************************************************************)
(* Process.operation_mapping: the Operations random.choice can yield; the  *)
(* empty set is random.choice raising IndexError on an empty list.         *)
(***************************************************************************)
\* the choice made among all the machines, the type filter of line 242 left out
operation_mapping_unfiltered(process) ==
    IF process.id_in_protocol \in {"input", "output"}
    THEN {Operation(process.db_id, process.id_in_protocol,
                    process.id_in_protocol, FALSE, FALSE)}
    ELSE {Operation(process.db_id, process.id_in_protocol,
                    machines[m].id, FALSE, FALSE) : m \in DOMAIN machines}

\* a process without a machine of its type given the first machine of the pool
operation_mapping_fallback(process) ==
    IF process.id_in_protocol \in {"input", "output"}
    THEN {Operation(process.db_id, process.id_in_protocol,
                    process.id_in_protocol, FALSE, FALSE)}
    ELSE LET matching == {k \in DOMAIN machines : machines[k].type = process.type}
         IN {Operation(process.db_id, process.id_in_protocol,
                       machines[m].id, FALSE, FALSE) :
                 m \in IF matching = {} THEN {1} ELSE matching}

operation_mapping(process) ==
    IF process.id_in_protocol \in {"input", "output"}
    THEN {Operation(process.db_id, process.id_in_protocol,
                    process.id_in_protocol, FALSE, FALSE)}
    ELSE {Operation(process.db_id, process.id_in_protocol,
                    machines[m].id, FALSE, FALSE) :
              m \in {k \in DOMAIN machines : machines[k].type = process.type}}

\* line 320: the list comprehension over process_list, from position i on
RECURSIVE operation_mapping_all(_, _)
operation_mapping_all(procs, i) ==
    IF i > Len(procs) THEN {<<>>}
    ELSE {<<o>> \o rest : o \in operation_mapping(procs[i]),
                          rest \in operation_mapping_all(procs, i + 1)}

(***************************************************************************)
(* connection_to_operation, lines 255-285.                                 *)
(***************************************************************************)
\* lines 256-262
Connection(connection) ==
    [input_source |-> connection.input[1], input_content |-> connection.input[2],
     output_source |-> connection.output[1], output_content |-> connection.output[2],
     is_data |-> connection.is_data]

\* line 270
TransportName(connection) ==
    connection.input_source \o "_" \o connection.input_content \o "_" \o
    connection.output_source \o "_" \o connection.output_content

\* the transport operation appended for data connections too
added_operations_always(connection, operation) == <<operation>>

\* lines 278-281: the operations a connection adds to the operation list
added_operations(connection, operation) ==
    IF connection.is_data THEN <<>> ELSE <<operation>>

\* the second edge of a transport written the wrong way round
added_edges_swapped(connection, operation_name_from, operation, operation_name_to) ==
    IF connection.is_data
    THEN << [from |-> operation_name_from, to |-> operation_name_to] >>
    ELSE << [from |-> operation_name_from, to |-> operation.name],
            [from |-> operation_name_to, to |-> operation.name] >>

\* lines 278-283: the edges a connection adds to the edge list
added_edges(connection, operation_name_from, operation, operation_name_to) ==
    IF connection.is_data
    THEN << [from |-> operation_name_from, to |-> operation_name_to] >>
    ELSE << [from |-> operation_name_from, to |-> operation.name],
            [from |-> operation.name, to |-> operation_name_to] >>

\* lines 265-283: the loop from connection i on; acc = [ok, operations, edges],
\* ok = FALSE when a [...][0] lookup raises IndexError
RECURSIVE connection_loop(_, _, _, _, _)
connection_loop(connection_list, i, procs, ops, acc) ==
    IF i > Len(connection_list) THEN acc
    ELSE
      LET connection == Connection(connection_list[i])
          sources == SelectSeq(procs,
                        LAMBDA p : p.id_in_protocol = connection.input_source)
          froms == SelectSeq(ops,
                        LAMBDA o : o.process_name = connection.input_source)
          tos == SelectSeq(ops,
                        LAMBDA o : o.process_name = connection.output_source)
      IN IF sources = <<>> \/ froms = <<>> \/ tos = <<>>
         THEN [acc EXCEPT !.ok = FALSE]
         ELSE
           LET source_process == sources[1]
               operation == Operation(source_process.db_id,
                                      source_process.id_in_protocol,
                                      TransportName(connection),
                                      TRUE, connection.is_data)
               operation_name_from == froms[1].name
               operation_name_to == tos[1].name
           IN connection_loop(connection_list, i + 1, procs, ops,
                [acc EXCEPT
                   !.operations = @ \o added_operations(connection, operation),
                   !.edges = @ \o added_edges(connection, operation_name_from,
                                              operation, operation_name_to)])

connection_to_operation(connection_list, procs, ops) ==
    connection_loop(connection_list, 1, procs, ops,
                    [ok |-> TRUE, operations |-> <<>>, edges |-> <<>>])

(***************************************************************************)
(* Collaborator calls.  A call is answered "ok" or goes wrong: a log       *)
(* server call is answered with a status other than 200 ("non200"), a      *)
(* create call whose id is read is answered 200 without one ("malformed"), *)
(* requests raises ("exception"); storage.save returns False ("false"; it  *)
(* catches every exception itself, storage_writer.py lines 96-122).        *)
(***************************************************************************)
Call(api, id, attribute, new_value, path, from_id, to_id) ==
    [api |-> api, id |-> id, attribute |-> attribute, new_value |-> new_value,
     path |-> path, from_id |-> from_id, to_id |-> to_id]

Post(api, name) == Call(api, 0, "name", name, NoPath, 0, 0)

Patch(api, id, attribute, new_value) ==
    Call(api, id, attribute, new_value, NoPath, 0, 0)

PatchPath(api, id, path) == Call(api, id, "storage_address", "", path, 0, 0)

Save(path, file) == Call("save", 0, "", "", [path EXCEPT !.file = file], 0, 0)

\* the create calls whose answer is read for the id
IdApis == {"post_run", "post_process", "post_operation"}

FaultKinds(api) ==
    IF api = "save" THEN {"false"}
    ELSE IF api \in IdApis THEN {"non200", "malformed", "exception"}
    ELSE {"non200", "exception"}

\* does the caller raise when the call goes wrong that way?  The status and
\* the body are read for the run, process and operation create calls only
\* (lines 95-107, 205-217, 459-470).
Aborts(api, kind) ==
    \/ kind = "exception"
    \/ api \in IdApis /\ kind \in {"non200", "malformed"}

\* The ways a handler making the calls of `script` can go, at most one call
\* going wrong: the calls answered, the fault, and whether the handler raised.
\* `during` is the db_id of the Operation being run, 0 outside Operation.run.
Inject(script, during) ==
    {[answered |-> script, fault |-> <<>>, failed_at |-> 0, aborted |-> FALSE]}
    \cup
    UNION {{LET fault == <<[api |-> script[k].api, kind |-> f, during |-> during]>>
            IN IF Aborts(script[k].api, f)
               THEN [answered |-> SubSeq(script, 1, IF f = "exception" THEN k - 1 ELSE k),
                     fault |-> fault, failed_at |-> k, aborted |-> TRUE]
               ELSE [answered |-> script, fault |-> fault, failed_at |-> k,
                     aborted |-> FALSE] :
              f \in FaultKinds(script[k].api)} : k \in DOMAIN script}

\* the ways open while the fault budget lasts
Ways(script, during, budget) ==
    {o \in Inject(script, during) : o.fault = <<>> \/ budget > 0}

RECURSIVE Flatten(_)
Flatten(ss) == IF ss = <<>> THEN <<>> ELSE Head(ss) \o Flatten(Tail(ss))

(***************************************************************************)
(* Process.post and Operation.post: the log server numbers the processes   *)
(* and the operations of the run in the order it is asked to create them.  *)
(***************************************************************************)
\* lines 219-221
Process_post(process, id) ==
    [process EXCEPT !.db_id = id,
                    !.storage_address = StoragePath(process.run_id, "processes", id)]

\* lines 195-228
Process_post_calls(process) ==
    << Post("post_process", process.id_in_protocol),
       PatchPath("patch_process", process.db_id, process.storage_address) >>

\* the id kept but the storage path of line 111 not assigned
Operation_post_no_address(operation, run, id) ==
    [operation EXCEPT !.db_id = id]

\* lines 109-111
Operation_post(operation, run, id) ==
    [operation EXCEPT !.db_id = id,
                      !.storage_address = StoragePath(run, "operations", id)]

\* lines 82-118
Operation_post_calls(operation) ==
    << Post("post_operation", operation.name),
       PatchPath("patch_operation", operation.db_id, operation.storage_address) >>

\* lines 326-332: the db_ids of the first operations of those names
edge_db_id(ops, edge) ==
    [from |-> SelectSeq(ops, LAMBDA o : o.name = edge.from)[1].db_id,
     to |-> SelectSeq(ops, LAMBDA o : o.name = edge.to)[1].db_id]

\* lines 334-342
edge_post_call(edge) == Call("post_edge", 0, "", "", NoPath, edge.from, edge.to)

(***************************************************************************)
(* create_process_and_operation_and_edge, lines 288-343: the set of its    *)
(* outcomes [raised, process_list, operation_list, edge_list, answered,    *)
(* fault].  Nothing is returned when it raises.                            *)
(***************************************************************************)
Raised(way) ==
    [raised |-> TRUE, process_list |-> <<>>, operation_list |-> <<>>,
     edge_list |-> <<>>, answered |-> way.answered, fault |-> way.fault]

create_process_and_operation_and_edge(run, protocol_dict, budget) ==
    LET processes == protocol_dict.operations
        connections == protocol_dict.connections
        unposted == [i \in DOMAIN processes |->
                        Process(run, processes[i].type, processes[i].id)]
                    \o << Process(run, "input", "input"),
                          Process(run, "output", "output") >>
        procs == [i \in DOMAIN unposted |-> Process_post(unposted[i], i)]
        process_calls == Flatten([i \in DOMAIN procs |-> Process_post_calls(procs[i])])
        mapped == operation_mapping_all(procs, 1)
        \* IndexError of random.choice (line 242) or of a [...][0] lookup
        \* (lines 266, 276, 277), after the processes are posted
        index_error == {Raised(w) : w \in Ways(process_calls, 0, budget)}
        built(step_operations) ==
            LET from_connections ==
                    connection_to_operation(connections, procs, step_operations)
                unposted_operations == step_operations \o from_connections.operations
                ops == [j \in DOMAIN unposted_operations |->
                            Operation_post(unposted_operations[j], run, j)]
                operation_calls ==
                    Flatten([j \in DOMAIN ops |-> Operation_post_calls(ops[j])])
                edges == from_connections.edges
                edge_calls == [e \in DOMAIN edges |->
                                  edge_post_call(edge_db_id(ops, edges[e]))]
            IN IF ~from_connections.ok THEN index_error
               ELSE {IF w.aborted THEN Raised(w)
                     ELSE [raised |-> FALSE, process_list |-> procs,
                           operation_list |-> ops, edge_list |-> edges,
                           answered |-> w.answered, fault |-> w.fault] :
                        w \in Ways(process_calls \o operation_calls \o edge_calls,
                                   0, budget)}
    IN IF mapped = {} THEN index_error
       ELSE UNION {built(step_operations) : step_operations \in mapped}

(***************************************************************************)
(* Operation.run, lines 120-176.                                           *)
(***************************************************************************)
LogContent(name) == "Operation " \o name \o " completed"

\* the start report sent under the id of the process instead of the operation
Operation_run_calls_process_id(operation) ==
    << Patch("patch_operation", operation.process_db_id, "started_at", "ts"),
       Patch("patch_operation", operation.db_id, "status", "running"),
       Save(operation.storage_address, "log.txt"),
       Patch("patch_operation", operation.db_id, "log", LogContent(operation.name)),
       Patch("patch_operation", operation.db_id, "finished_at", "ts"),
       Patch("patch_operation", operation.db_id, "status", "completed") >>

\* the log line written to the storage after the completed report
Operation_run_calls_save_last(operation) ==
    << Patch("patch_operation", operation.db_id, "started_at", "ts"),
       Patch("patch_operation", operation.db_id, "status", "running"),
       Patch("patch_operation", operation.db_id, "log", LogContent(operation.name)),
       Patch("patch_operation", operation.db_id, "finished_at", "ts"),
       Patch("patch_operation", operation.db_id, "status", "completed"),
       Save(operation.storage_address, "log.txt") >>

\* the report of status running left out
Operation_run_calls_no_running(operation) ==
    << Patch("patch_operation", operation.db_id, "started_at", "ts"),
       Save(operation.storage_address, "log.txt"),
       Patch("patch_operation", operation.db_id, "log", LogContent(operation.name)),
       Patch("patch_operation", operation.db_id, "finished_at", "ts"),
       Patch("patch_operation", operation.db_id, "status", "completed") >>

Operation_run_calls(operation) ==
    << Patch("patch_operation", operation.db_id, "started_at", "ts"),
       Patch("patch_operation", operation.db_id, "status", "running"),
       Save(operation.storage_address, "log.txt"),
       Patch("patch_operation", operation.db_id, "log", LogContent(operation.name)),
       Patch("patch_operation", operation.db_id, "finished_at", "ts"),
       Patch("patch_operation", operation.db_id, "status", "completed") >>

\* the Operation object after run() went the way `way`: lines 121-122 are
\* executed before the first call, lines 143-144 before the third
\* the assignment of line 144 (status completed) left out
Operation_run_stays_running(operation, way) ==
    IF way.aborted /\ way.failed_at <= 2
    THEN [operation EXCEPT !.started_at = "ts", !.status = "running"]
    ELSE [operation EXCEPT !.started_at = "ts", !.finished_at = "ts",
                           !.status = "running"]

Operation_run(operation, way) ==
    IF way.aborted /\ way.failed_at <= 2
    THEN [operation EXCEPT !.started_at = "ts", !.status = "running"]
    ELSE [operation EXCEPT !.started_at = "ts", !.finished_at = "ts",
                           !.status = "completed"]

(***************************************************************************)
(* run_experiment, lines 440-523, one action per step of it.               *)
(***************************************************************************)
RunPath(run) == [run |-> run, kind |-> "", id |-> 0, file |-> ""]

\* the state a request starts in
Request ==
    /\ pc = "start"
    /\ run_id = 0
    /\ process_list = <<>>
    /\ operation_list = <<>>
    /\ edge_list = <<>>
    /\ plan = <<>>
    /\ idx = 0
    /\ calls = <<>>
    /\ faults = <<>>
    /\ response = "none"

\* a request whose collaborator calls are all answered ok
Init ==
    /\ protocol \in Protocols(MaxProcs, MaxConns)
    /\ fault_budget = 0
    /\ Request

\* the protocols whose declared processes and connections number n at most
ProtocolsOfSize(n) ==
    {p \in Protocols(n, n) : Len(p.operations) + Len(p.connections) <= n}

\* a request during which up to MaxFaults collaborator calls go wrong
InitFaults ==
    /\ protocol \in ProtocolsOfSize(MaxFaultSize)
    /\ fault_budget = MaxFaults
    /\ Request

\* what an exception leaving run_experiment does: the caller gets an error
Raise(way) ==
    /\ pc' = "raised"
    /\ response' = "error"
    /\ calls' = calls \o way.answered
    /\ faults' = faults \o way.fault

\* lines 447-496: the Run is created, its storage_address and storage_mode
\* are patched and the two yaml files are uploaded
CreateRun ==
    /\ pc = "start"
    /\ \E way \in Ways(<< Post("post_run", "protocol"),
                          PatchPath("patch_run", 1, RunPath(1)),
                          Patch("patch_run", 1, "storage_mode", "mode"),
                          Save(RunPath(1), "protocol.yaml"),
                          Save(RunPath(1), "manipulate.yaml") >>,
                       0, fault_budget - Len(faults)) :
         /\ run_id' = IF way.failed_at = 1 THEN 0 ELSE 1
         /\ IF way.aborted
            THEN Raise(way)
            ELSE /\ pc' = "run_created"
                 /\ calls' = calls \o way.answered
                 /\ faults' = faults \o way.fault
                 /\ UNCHANGED response
    /\ UNCHANGED <<protocol, process_list, operation_list, edge_list, plan, idx,
                   fault_budget>>

\* lines 506-511
Build ==
    /\ pc = "run_created"
    /\ \E out \in create_process_and_operation_and_edge(
                      run_id, protocol, fault_budget - Len(faults)) :
         /\ process_list' = out.process_list
         /\ operation_list' = out.operation_list
         /\ edge_list' = out.edge_list
         /\ IF out.raised
            THEN Raise(out)
            ELSE /\ pc' = "built"
                 /\ calls' = calls \o out.answered
                 /\ faults' = faults \o out.fault
                 /\ UNCHANGED response
    /\ UNCHANGED <<protocol, run_id, plan, idx, fault_budget>>

\* line 512
Schedule ==
    /\ pc = "built"
    /\ \E order \in create_plan(edge_list) :
         plan' = order
    /\ pc' = "planned"
    /\ UNCHANGED <<protocol, run_id, process_list, operation_list, edge_list,
                   idx, calls, faults, fault_budget, response>>

\* lines 513-515
StartRun ==
    /\ pc = "planned"
    /\ \E way \in Ways(<< Patch("patch_run", run_id, "started_at", "ts"),
                          Patch("patch_run", run_id, "status", "running") >>,
                       0, fault_budget - Len(faults)) :
         IF way.aborted
         THEN Raise(way) /\ UNCHANGED idx
         ELSE /\ pc' = "executing"
              /\ idx' = 1
              /\ calls' = calls \o way.answered
              /\ faults' = faults \o way.fault
              /\ UNCHANGED response
    /\ UNCHANGED <<protocol, run_id, process_list, operation_list, edge_list, plan,
                   fault_budget>>

\* line 517: the position in operation_list of the first Operation of that name
Lookup(ops, operation_name) ==
    CHOOSE k \in DOMAIN ops :
        /\ ops[k].name = operation_name
        /\ \A j \in 1..(k - 1) : ops[j].name # operation_name

\* lines 516-518: one turn of the loop over the plan
RunOperation ==
    /\ pc = "executing"
    /\ idx <= Len(plan)
    /\ LET k == Lookup(operation_list, plan[idx])
           operation == operation_list[k]
       IN \E way \in Ways(Operation_run_calls(operation), operation.db_id,
                          fault_budget - Len(faults)) :
            /\ operation_list' =
                   [operation_list EXCEPT ![k] = Operation_run(operation, way)]
            /\ IF way.aborted
               THEN Raise(way) /\ UNCHANGED idx
               ELSE /\ idx' = idx + 1
                    /\ calls' = calls \o way.answered
                    /\ faults' = faults \o way.fault
                    /\ UNCHANGED <<pc, response>>
    /\ UNCHANGED <<protocol, run_id, process_list, edge_list, plan, fault_budget>>

\* lines 519-523
FinishRun ==
    /\ pc = "executing"
    /\ idx > Len(plan)
    /\ \E way \in Ways(<< Patch("patch_run", run_id, "finished_at", "ts"),
                          Patch("patch_run", run_id, "status", "completed") >>,
                       0, fault_budget - Len(faults)) :
         IF way.aborted
         THEN Raise(way)
         ELSE /\ pc' = "done"
              /\ response' = "completed"
              /\ calls' = calls \o way.answered
              /\ faults' = faults \o way.fault
    /\ UNCHANGED <<protocol, run_id, process_list, operation_list, edge_list,
                   plan, idx, fault_budget>>

Next ==
    \/ CreateRun
    \/ Build
    \/ Schedule
    \/ StartRun
    \/ RunOperation
    \/ FinishRun

Spec == Init /\ [][Next]_vars

SpecFaults == InitFaults /\ [][Next]_vars

(***************************************************************************)
(* create_plan called on its own with an arbitrary edge list.              *)
(***************************************************************************)
PlanNodes == {"a", "b", "c"}

PlanEdgeLists ==
    SeqsUpTo({[from |-> a, to |-> b] : a \in PlanNodes, b \in PlanNodes}, MaxEdges)

InitPlan ==
    /\ protocol = [operations |-> <<>>, connections |-> <<>>]
    /\ pc = "built"
    /\ run_id = 0
    /\ process_list = <<>>
    /\ operation_list = <<>>
    /\ edge_list \in PlanEdgeLists
    /\ plan = <<>>
    /\ idx = 0
    /\ calls = <<>>
    /\ faults = <<>>
    /\ fault_budget = 0
    /\ response = "none"

NextPlan == Schedule

SpecPlan == InitPlan /\ [][NextPlan]_vars

(***************************************************************************)
(* Properties of the scheduler.                                            *)
(***************************************************************************)
\* the transitive closure of a set of pairs
RECURSIVE TransitiveClosure(_)
TransitiveClosure(R) ==
    LET more == R \cup {<<q[1][1], q[2][2]>> : q \in {r \in R \X R : r[1][2] = r[2][1]}}
    IN IF more = R THEN R ELSE TransitiveClosure(more)

HasCycle(edges) == \E e \in TransitiveClosure(edges) : e[1] = e[2]

Scheduled == pc \in {"planned", "executing", "done"}

\* C1: for an acyclic edge list, create_plan returns an order in which, for
\* every edge (a -> b), a stands strictly before b.
C1_EdgesRespected ==
    (pc = "planned" /\ ~HasCycle(EdgeTuples(edge_list))) =>
        \A i \in DOMAIN edge_list :
            /\ Positions(plan, edge_list[i].from) # {}
            /\ Positions(plan, edge_list[i].to) # {}
            /\ \A a \in Positions(plan, edge_list[i].from),
                  b \in Positions(plan, edge_list[i].to) : a < b

\* an acyclic edge list of three distinct edges has been scheduled
C1_Witness ==
    /\ pc = "planned"
    /\ ~HasCycle(EdgeTuples(edge_list))
    /\ Cardinality(EdgeTuples(edge_list)) = 3
    /\ Len(plan) = 3

\* C2: every Operation of the operation list appears exactly once in the
\* order returned by create_plan, operations without an edge included.
C2_EveryOperationScheduledOnce ==
    Scheduled =>
        \A k \in DOMAIN operation_list :
            Cardinality(Positions(plan, operation_list[k].name)) = 1

\* C3: create_plan never returns an order for an edge list that has a
\* directed cycle (it fails with CycleDetected instead).
C3_CycleDetected ==
    pc = "planned" => ~HasCycle(EdgeTuples(edge_list))

(***************************************************************************)
(* Properties of the execution driver.                                     *)
(***************************************************************************)
IsPrefix(s, t) == Len(s) <= Len(t) /\ \A i \in DOMAIN s : s[i] = t[i]

\* the Operation the log server knows under the id
OperationOfId(id) ==
    operation_list[CHOOSE k \in DOMAIN operation_list : operation_list[k].db_id = id]

\* the start reports (started_at) the log server answered, in order
StartReports ==
    SelectSeq(calls, LAMBDA c : c.api = "patch_operation" /\ c.attribute = "started_at")

\* the names of the operations the start reports were sent for
StartedNames == [i \in DOMAIN StartReports |-> OperationOfId(StartReports[i].id).name]

\* the status of the Run as last reported to the log server
RunStatusReports ==
    SelectSeq(calls, LAMBDA c : c.api = "patch_run" /\ c.attribute = "status")

RunStatus ==
    IF RunStatusReports = <<>> THEN "not started"
    ELSE RunStatusReports[Len(RunStatusReports)].new_value

\* C4: the operations a start report is sent for are those of the plan, in
\* the order of the plan: at every moment a prefix of it, and the whole of it
\* once the request is done.
C4_StartReportsFollowPlan ==
    /\ IsPrefix(StartedNames, plan)
    /\ pc = "done" => StartedNames = plan

\* a request is done whose plan has three operations
C4_Witness ==
    /\ pc = "done"
    /\ Len(plan) = 3
    /\ Len(StartReports) = 3

\* C5: once the request has ended, an operation during whose run a
\* collaborator call went wrong is marked failed, no operation after it was
\* started, and the Run is reported failed.
C5_FailFast ==
    pc \in {"done", "raised"} =>
        \A i \in DOMAIN faults :
            faults[i].during # 0 =>
                /\ OperationOfId(faults[i].during).status = "failed"
                /\ \A j \in DOMAIN StartReports :
                       StartReports[j].id = faults[i].during => j = Len(StartReports)
                /\ RunStatus = "failed"

\* C6: when the Run is reported completed, every Operation of the run has
\* status completed.
C6_CompletedRunAllCompleted ==
    RunStatus = "completed" =>
        \A k \in DOMAIN operation_list : operation_list[k].status = "completed"

\* C7: a request during which a collaborator call went wrong never reports
\* the Run completed, and a request that created a Run and ended on an error
\* has reported the Run failed.
C7_NoSwallowedError ==
    /\ (RunStatus = "completed" \/ response = "completed") => faults = <<>>
    /\ (pc = "raised" /\ run_id # 0) => RunStatus = "failed"

(***************************************************************************)
(* Properties of the graph builder.                                        *)
(***************************************************************************)
Declared == Len(protocol.operations)

ConnectionsWith(is_data) ==
    {i \in DOMAIN protocol.connections : protocol.connections[i].is_data = is_data}

\* the connections before the i-th that are data (or non-data) connections
Before(i, is_data) == {j \in ConnectionsWith(is_data) : j < i}

Constructed == operation_list # <<>>

\* the Operation made for the process of that id
StepOperation(process_id) ==
    operation_list[CHOOSE k \in 1..(Declared + 2) :
        /\ operation_list[k].process_name = process_id
        /\ \A j \in 1..(k - 1) : operation_list[j].process_name # process_id]

\* C8: N declared processes, D data connections and T non-data connections
\* give N + 2 + T operations.
C8_OperationCount ==
    Constructed =>
        Len(operation_list) = Declared + 2 + Cardinality(ConnectionsWith(FALSE))

\* two declared processes, one data and one non-data connection
C8_Witness ==
    /\ Constructed
    /\ Declared = 2
    /\ Cardinality(ConnectionsWith(TRUE)) = 1
    /\ Cardinality(ConnectionsWith(FALSE)) = 1

\* C9: a data connection adds exactly the edge from the step operation of
\* its source to the step operation of its target and no operation; a
\* non-data connection adds one transport operation (is_transport, is_data
\* of the connection, owned by the source process) and the two edges
\* source -> transport -> target.
C9_ConnectionEdges ==
    Constructed =>
        /\ Len(edge_list) = Cardinality(ConnectionsWith(TRUE))
                              + 2 * Cardinality(ConnectionsWith(FALSE))
        /\ Cardinality({k \in DOMAIN operation_list : operation_list[k].is_transport})
             = Cardinality(ConnectionsWith(FALSE))
        /\ \A i \in DOMAIN protocol.connections :
             LET c == protocol.connections[i]
                 source == StepOperation(c.input[1])
                 target == StepOperation(c.output[1])
                 at == Cardinality(Before(i, TRUE)) + 2 * Cardinality(Before(i, FALSE))
                 transport ==
                     operation_list[Declared + 2 + Cardinality(Before(i, FALSE)) + 1]
             IN IF c.is_data
                THEN edge_list[at + 1] = [from |-> source.name, to |-> target.name]
                ELSE /\ transport.is_transport
                     /\ transport.is_data = c.is_data
                     /\ transport.process_name = c.input[1]
                     /\ transport.process_db_id = source.process_db_id
                     /\ edge_list[at + 1] = [from |-> source.name, to |-> transport.name]
                     /\ edge_list[at + 2] = [from |-> transport.name, to |-> target.name]

\* a non-data connection followed by a data connection
C9_Witness ==
    /\ Constructed
    /\ Len(protocol.connections) = 2
    /\ ~protocol.connections[1].is_data
    /\ protocol.connections[2].is_data
    /\ Len(edge_list) = 3

\* the machines of the pool that have the type
Candidates(type) == {m \in Range(machines) : m.type = type}

\* C10: the step operation of a declared process is named after a machine
\* of the pool whose type is the type of the process, and after the only such
\* machine when there is exactly one.
C10_OperatorMatchesType ==
    Constructed =>
        \A i \in 1..Declared :
            LET candidates == Candidates(protocol.operations[i].type)
            IN /\ \E m \in candidates : operation_list[i].name = m.id
               /\ Cardinality(candidates) = 1 =>
                      \A m \in candidates : operation_list[i].name = m.id

\* a process with two candidate machines and a process with one
C10_Witness ==
    /\ Constructed
    /\ Declared = 2
    /\ Cardinality(Candidates(protocol.operations[1].type)) = 2
    /\ Cardinality(Candidates(protocol.operations[2].type)) = 1
    /\ operation_list[1].name = "m2"

(***************************************************************************)
(* Properties of the failures of construction.                             *)
(***************************************************************************)
\* some declared process has a type that no machine of the pool has
HasUnmatched ==
    \E i \in 1..Declared : Candidates(protocol.operations[i].type) = {}

\* the calls that write an execution-state field: started_at, status, log
\* and finished_at of the Run or of an Operation
ExecutionReports ==
    SelectSeq(calls, LAMBDA c :
        /\ c.api \in {"patch_run", "patch_operation"}
        /\ c.attribute \in {"started_at", "status", "log", "finished_at"})

\* the calls that register an Operation or an Edge
OperationRegistrations ==
    SelectSeq(calls, LAMBDA c : c.api \in {"post_operation", "post_edge"})

\* C11: when a declared process has a type no machine of the pool has, graph
\* construction fails: no operation list and no edge list come back, no
\* operation is registered, nothing is scheduled and nothing is executed.
C11_NoMatchingOperator ==
    HasUnmatched =>
        /\ pc \in {"start", "run_created", "raised"}
        /\ operation_list = <<>>
        /\ edge_list = <<>>
        /\ plan = <<>>
        /\ idx = 0
        /\ OperationRegistrations = <<>>
        /\ ExecutionReports = <<>>
        /\ response # "completed"

\* construction was entered (its processes are posted) and failed for a
\* protocol of two processes of which the second has no machine
C11_Witness ==
    /\ HasUnmatched
    /\ Declared = 2
    /\ Candidates(protocol.operations[1].type) # {}
    /\ pc = "raised"
    /\ Len(SelectSeq(calls, LAMBDA c : c.api = "post_process")) = Declared + 2

\* C12: a run whose construction or scheduling hits a construction-time
\* error (a process without a machine, a cyclic edge list) never writes an
\* execution-state field of the Run or of an Operation.
C12_NoExecutionStateOnConstructionError ==
    (HasUnmatched \/ HasCycle(EdgeTuples(edge_list))) => ExecutionReports = <<>>

\* the faults of the log-server calls of graph construction
RegistrationApis ==
    {"post_process", "patch_process", "post_operation", "patch_operation", "post_edge"}

RegistrationFaults ==
    SelectSeq(faults, LAMBDA f : f.api \in RegistrationApis /\ f.during = 0)

\* C13: a log-server call of graph construction that goes wrong aborts
\* construction: the request raises and nothing is built, scheduled or run.
C13_RegistrationFailureFatal ==
    RegistrationFaults # <<>> =>
        /\ pc \in {"run_created", "raised"}
        /\ operation_list = <<>>
        /\ ExecutionReports = <<>>

(***************************************************************************)
(* Properties of the life of an Operation.                                 *)
(***************************************************************************)
\* the statuses reported to the log server for the operation, in order
StatusValues(id) ==
    LET reports == SelectSeq(calls, LAMBDA c :
                       c.api = "patch_operation" /\ c.attribute = "status" /\ c.id = id)
    IN [i \in DOMAIN reports |-> reports[i].new_value]

\* the reports one pass through the state machine can have sent so far
Lifecycles ==
    {<<>>, <<"running">>, <<"running", "completed">>, <<"running", "failed">>}

\* the start reports sent for the operation
StartsOf(id) == SelectSeq(StartReports, LAMBDA c : c.id = id)

LifecycleRespected ==
    \A k \in DOMAIN operation_list :
        LET operation == operation_list[k]
        IN /\ operation.status \in {"not started", "running", "completed", "failed"}
           /\ StatusValues(operation.db_id) \in Lifecycles
           /\ Len(StartsOf(operation.db_id)) <= 1
           /\ operation.status = "not started" =>
                  /\ StatusValues(operation.db_id) = <<>>
                  /\ StartsOf(operation.db_id) = <<>>
                  /\ operation.started_at = "None"
           /\ operation.status = "running" =>
                  StatusValues(operation.db_id) \in {<<>>, <<"running">>}

\* C14: the statuses of an Operation follow not started -> running ->
\* completed | failed: the reports sent for it are a prefix of one such
\* sequence, it gets at most one start report, and once it has left
\* not started no later step touches it again.
C14_OperationStateMachine ==
    [][/\ LifecycleRespected'
       /\ \A k \in DOMAIN operation_list :
              operation_list[k].status # "not started" =>
                  /\ k \in DOMAIN operation_list'
                  /\ operation_list'[k] = operation_list[k]]_vars

\* a request ended on an error with one operation completed and the next
\* one left running after its start report
C14_Witness ==
    /\ pc = "raised"
    /\ \E k \in DOMAIN operation_list :
           /\ operation_list[k].status = "completed"
           /\ StatusValues(operation_list[k].db_id) = <<"running", "completed">>
    /\ \E k \in DOMAIN operation_list :
           /\ operation_list[k].status = "running"
           /\ Len(StartsOf(operation_list[k].db_id)) = 1

\* where in calls the start reports stand
StartPositions ==
    {i \in DOMAIN calls :
        calls[i].api = "patch_operation" /\ calls[i].attribute = "started_at"}

\* C15: at most one Operation has status running, and between the start
\* reports of two operations stands the completed report of the first.
C15_Sequential ==
    /\ Cardinality({k \in DOMAIN operation_list :
                        operation_list[k].status = "running"}) <= 1
    /\ \A i \in StartPositions, j \in StartPositions :
           i < j => \E c \in (i + 1)..(j - 1) :
                        calls[c] = Patch("patch_operation", calls[i].id,
                                         "status", "completed")

\* three operations were run one after the other
C15_Witness ==
    /\ pc = "done"
    /\ Cardinality(StartPositions) = 3

\* the position in the plan of the operation during whose run a call failed
FailedAt(fault) ==
    CHOOSE j \in DOMAIN plan : plan[j] = OperationOfId(fault.during).name

\* C16: when a collaborator call goes wrong during the run of an operation,
\* the operations completed before it stay completed and nothing is written
\* for the operations scheduled after it: they are not started and no
\* report is sent for them.
C16_OnlyRemainingScheduleAborted ==
    \A i \in DOMAIN faults :
        faults[i].during # 0 =>
            /\ \A j \in 1..(FailedAt(faults[i]) - 1) :
                   LET before == operation_list[Lookup(operation_list, plan[j])]
                   IN /\ before.status = "completed"
                      /\ StatusValues(before.db_id) = <<"running", "completed">>
            /\ \A j \in (FailedAt(faults[i]) + 1)..Len(plan) :
                   LET later == operation_list[Lookup(operation_list, plan[j])]
                   IN /\ later.status = "not started"
                      /\ \A c \in DOMAIN calls :
                             ~(calls[c].api = "patch_operation" /\ calls[c].id = later.db_id
                               /\ calls[c].attribute # "storage_address")

(***************************************************************************)
(* Properties of the order the scheduler returns.                          *)
(***************************************************************************)
\* C17: create_plan has one result for an edge list, whatever the order in
\* which its sets of edges and nodes are iterated.
C17_Deterministic ==
    pc = "planned" => create_plan(edge_list) = {plan}

\* where a name is declared in the operation list
DeclarationIndex(name) == Lookup(operation_list, name)

FirstDeclared(names) ==
    CHOOSE c \in names : \A d \in names : DeclarationIndex(c) <= DeclarationIndex(d)

\* the depth-first search of create_plan when every set is visited in the
\* order of declaration
RECURSIVE declared_dfs(_, _, _), declared_loop(_, _, _)
declared_dfs(graph, node, st) ==
    LET marked == [st EXCEPT !.seen = @ \cup {node}]
        inner == declared_loop(graph, graph[node], marked)
    IN [inner EXCEPT !.ret_list = Append(@, node)]

declared_loop(graph, todo, st) ==
    LET unseen == {c \in todo : c \notin st.seen}
    IN IF unseen = {} THEN st
       ELSE LET first == FirstDeclared(unseen)
            IN declared_loop(graph, todo \ {first}, declared_dfs(graph, first, st))

DeclaredOrderPlan ==
    LET graph == Graph(EdgeTuples(edge_list))
    IN Reverse(declared_loop(graph, DOMAIN graph,
                             [seen |-> {}, ret_list |-> <<>>]).ret_list)

\* C18: the order returned for an acyclic edge list is the one order that
\* visiting the nodes in the order of their declaration in the operation
\* list gives.
C18_DeclarationOrderTieBreak ==
    (pc = "planned" /\ ~HasCycle(EdgeTuples(edge_list))) => plan = DeclaredOrderPlan

(***************************************************************************)
(* The end-to-end scenario: one process (p1, of the type t2 that only the  *)
(* machine m3 has) between input and output, both connections non-data.    *)
(***************************************************************************)
Scenario ==
    [operations |-> << [id |-> "p1", type |-> "t2"] >>,
     connections |->
        << [input |-> <<"input", "x">>, output |-> <<"p1", "x">>, is_data |-> FALSE],
           [input |-> <<"p1", "x">>, output |-> <<"output", "x">>, is_data |-> FALSE] >>]

\* C19: the scenario gives the processes p1, input, output, the five
\* operations m3, input, output and the two transports, the edge chain
\* input -> transport 1 -> m3 -> transport 2 -> output, and exactly the
\* schedule input, transport 1, m3, transport 2, output.
C19_Scenario ==
    (protocol = Scenario /\ Constructed) =>
        /\ [i \in DOMAIN process_list |-> process_list[i].id_in_protocol]
             = <<"p1", "input", "output">>
        /\ [k \in DOMAIN operation_list |-> operation_list[k].name]
             = <<"m3", "input", "output", "input_x_p1_x", "p1_x_output_x">>
        /\ edge_list = << [from |-> "input", to |-> "input_x_p1_x"],
                          [from |-> "input_x_p1_x", to |-> "m3"],
                          [from |-> "m3", to |-> "p1_x_output_x"],
                          [from |-> "p1_x_output_x", to |-> "output"] >>
        /\ Scheduled =>
               plan = <<"input", "input_x_p1_x", "m3", "p1_x_output_x", "output">>

\* the scenario has run to its end
C19_Witness ==
    /\ protocol = Scenario
    /\ pc = "done"
    /\ Len(StartReports) = 5

(***************************************************************************)
(* The order of the calls made for one operation.                          *)
(***************************************************************************)
\* the calls of the run of the operation: its reports to the log server and
\* the writes under its storage path
RunCallsOf(id) ==
    SelectSeq(calls, LAMBDA c :
        \/ /\ c.api = "patch_operation"
           /\ c.id = id
           /\ c.attribute # "storage_address"
        \/ /\ c.api = "save"
           /\ c.path = [StoragePath(run_id, "operations", id) EXCEPT !.file = "log.txt"])

\* the positions before position c of q at which the call is of that kind
Earlier(q, c, api, attribute, new_value) ==
    {b \in 1..(c - 1) : /\ q[b].api = api
                        /\ q[b].attribute = attribute
                        /\ q[b].new_value = new_value}

\* C20: for every operation, the start timestamp and the running status
\* are reported before its log line is written under its own storage path,
\* and the log content, the finish timestamp and the completed status are
\* reported only after that write.
C20_CallOrder ==
    \A k \in DOMAIN operation_list :
        LET q == RunCallsOf(operation_list[k].db_id)
        IN \A c \in DOMAIN q :
             /\ q[c].api = "save" =>
                    /\ Earlier(q, c, "patch_operation", "started_at", "ts") # {}
                    /\ Earlier(q, c, "patch_operation", "status", "running") # {}
             /\ (q[c].api = "patch_operation"
                    /\ (q[c].attribute \in {"log", "finished_at"}
                          \/ q[c].new_value = "completed")) =>
                    /\ Earlier(q, c, "save", "", "") # {}
                    /\ Earlier(q, c, "patch_operation", "status", "running") # {}
             /\ (q[c].api = "patch_operation" /\ q[c].new_value = "completed") =>
                    /\ Earlier(q, c, "patch_operation", "log",
                               LogContent(operation_list[k].name)) # {}
                    /\ Earlier(q, c, "patch_operation", "finished_at", "ts") # {}

\* an operation has been reported completed after a storage write that
\* went wrong
C20_Witness ==
    /\ \E i \in DOMAIN faults : faults[i].api = "save" /\ faults[i].during # 0
    /\ \E k \in DOMAIN operation_list :
           Len(RunCallsOf(operation_list[k].db_id)) = 6

(***************************************************************************)
(* Properties of the names of the operations.                              *)
(***************************************************************************)
\* C21: the Operations of one run have pairwise distinct names, whatever
\* machines the processes are assigned, so that a name of an edge or of the
\* plan stands for one Operation of the operation list.
C21_DistinctOperationNames ==
    Constructed =>
        \A j \in DOMAIN operation_list, k \in DOMAIN operation_list :
            operation_list[j].name = operation_list[k].name => j = k

\* the connections of the protocol as pairs of process ids
ProcessEdges ==
    {<<protocol.connections[i].input[1], protocol.connections[i].output[1]>> :
        i \in DOMAIN protocol.connections}

\* C22: when the connections of the protocol are acyclic over the process
\* ids, the edge list over operation names that construction returns is
\* acyclic, whatever machines the processes are assigned.
C22_ConstructionPreservesAcyclicity ==
    (Constructed /\ ~HasCycle(ProcessEdges)) => ~HasCycle(EdgeTuples(edge_list))

(***************************************************************************)
(* Registration and execution.                                             *)
(***************************************************************************)
\* where in calls the Run is reported running
RunningPositions ==
    {c \in DOMAIN calls : calls[c] = Patch("patch_run", run_id, "status", "running")}

\* the calls of that api made before position r
CallsBefore(r, api) ==
    SelectSeq(SubSeq(calls, 1, r - 1), LAMBDA c : c.api = api)

\* the registration calls of graph construction
IsRegistration(c) ==
    \/ c.api \in {"post_process", "post_operation", "post_edge", "patch_process"}
    \/ c.api = "patch_operation" /\ c.attribute = "storage_address"

\* before position r every Process, Operation and Edge of the run has been
\* the subject of a create call, in the order of the lists, and every
\* Operation has its id and its storage path, the path reported too
RegisteredBefore(r) ==
    LET processes == CallsBefore(r, "post_process")
        operations == CallsBefore(r, "post_operation")
        paths == CallsBefore(r, "patch_operation")
        edges == CallsBefore(r, "post_edge")
    IN /\ Len(processes) = Len(process_list)
       /\ \A i \in DOMAIN process_list :
              /\ processes[i] = Post("post_process", process_list[i].id_in_protocol)
              /\ process_list[i].db_id # 0
       /\ Len(operations) = Len(operation_list)
       /\ \A k \in DOMAIN operation_list :
              /\ operations[k] = Post("post_operation", operation_list[k].name)
              /\ operation_list[k].db_id # 0
              /\ operation_list[k].storage_address
                     = StoragePath(run_id, "operations", operation_list[k].db_id)
              /\ paths[k] = PatchPath("patch_operation", operation_list[k].db_id,
                                      operation_list[k].storage_address)
       /\ Len(edges) = Len(edge_list)
       /\ \A e \in DOMAIN edge_list :
              /\ edges[e].from_id
                     = operation_list[Lookup(operation_list, edge_list[e].from)].db_id
              /\ edges[e].to_id
                     = operation_list[Lookup(operation_list, edge_list[e].to)].db_id

\* C23: when the Run is reported running, the create calls of every
\* Process, Operation and Edge of the run have been made and every Operation
\* has its id and storage path; no registration call comes later; every
\* start report of an operation comes after the running report of the Run
\* and is sent for an Operation that was registered.
C23_RegistrationPrecedesExecution ==
    /\ \A r \in RunningPositions :
           /\ RegisteredBefore(r)
           /\ \A c \in (r + 1)..Len(calls) : ~IsRegistration(calls[c])
    /\ \A s \in StartPositions :
           /\ \E r \in RunningPositions : r < s
           /\ \E k \in DOMAIN operation_list :
                  /\ operation_list[k].db_id = calls[s].id
                  /\ Len(CallsBefore(s, "post_operation")) >= k

\* a run of three operations and two edges has been executed to its end
C23_Witness ==
    /\ pc = "done"
    /\ Len(edge_list) = 2
    /\ Cardinality(StartPositions) = 3
    /\ RunningPositions # {}

====
